---- MODULE Spec2Model ----
(***************************************************************************)
(* A model of cocos/core/vmath/mat3.ts and cocos/3d/geom-utils/line.ts.    *)
(*                                                                         *)
(* Objects live in heaps indexed by identity, so that "out === a" is the   *)
(* equality of two identities and an assignment through one reference is   *)
(* seen through every other reference to the same object.                  *)
(*                                                                         *)
(* A JavaScript number is modelled as an exact rational <<n, d>> in lowest *)
(* terms with d > 0.  On the small integers and their quotients drawn here *)
(* +, - and * are exact in IEEE doubles as well; the rounding of 1.0/det   *)
(* and of Math.sqrt, overflow to Infinity and NaN are outside the model.   *)
(* Math.sqrt of a rational that is no perfect square is kept as the exact  *)
(* radical <<n, d, 2>>, on which no arithmetic is defined.                 *)
(***************************************************************************)
EXTENDS Integers, Sequences, FiniteSets, TLC

VARIABLES mats, m4, vecs, lines, scratch, ret, last, steps

vars == <<mats, m4, vecs, lines, scratch, ret, last, steps>>

(***************************************************************************)
(* Bounds of the model.                                                    *)
(***************************************************************************)
\* how many of ColList's columns the input matrices are built from
NCols == 3
\* how many extra rows and columns the 4x4 input matrices are built from
NExtra == 2
\* how many calls a behaviour of SpecObj or SpecView makes
MaxCalls == 2
\* how many line objects and how many mat3 objects SpecObj allocates
MaxObjs == 2
\* how many of PtList's points the lines are built from
NPts == 2
\* how many of ViewList's vectors fromViewUp is called with
NViews == 4

(***************************************************************************)
(* Numbers.                                                                *)
(***************************************************************************)
Abs(n) == IF n < 0 THEN -n ELSE n

RECURSIVE GCD(_, _)
GCD(a, b) == IF b = 0 THEN a ELSE GCD(b, a % b)

Norm(n, d) ==
    LET g == GCD(Abs(n), Abs(d))
        s == IF d < 0 THEN -1 ELSE 1
    IN  <<(s * n) \div g, (s * d) \div g>>

R(n) == <<n, 1>>
Zero == <<0, 1>>
One == <<1, 1>>

Add(p, q) ==
    IF p[2] = 1 /\ q[2] = 1 THEN <<p[1] + q[1], 1>>
    ELSE Norm(p[1] * q[2] + q[1] * p[2], p[2] * q[2])
Neg(p) == <<-p[1], p[2]>>
Sub(p, q) == Add(p, Neg(q))
Mul(p, q) ==
    IF p[2] = 1 /\ q[2] = 1 THEN <<p[1] * q[1], 1>>
    ELSE Norm(p[1] * q[1], p[2] * q[2])
\* 1.0 / p, for p # 0
Recip(p) == Norm(p[2], p[1])
Lt(p, q) == p[1] * q[2] < q[1] * p[2]
Le(p, q) == p[1] * q[2] <= q[1] * p[2]
RAbs(p) == <<Abs(p[1]), p[2]>>
RMax(p, q) == IF Lt(p, q) THEN q ELSE p
\* JavaScript's !x on a number: true of zero
Falsy(p) == p[1] = 0

(***************************************************************************)
(* What a call returns: null, a reference to an object, or a number.       *)
(***************************************************************************)
RetNull == [kind |-> "null", id |-> 0, val |-> Zero]
RetRef(o) == [kind |-> "ref", id |-> o, val |-> Zero]
RetNum(v) == [kind |-> "num", id |-> 0, val |-> v]

(***************************************************************************)
(* mat3.  A heap h maps the identity of a mat3 object to its nine fields;  *)
(* out, a and b are identities.  A function that reads its operands into   *)
(* locals before it writes is one simultaneous update; one that interleaves*)
(* reads and writes is a chain of single assignments.                      *)
(***************************************************************************)
mat3_new(m00, m01, m02, m03, m04, m05, m06, m07, m08) ==
    [m00 |-> m00, m01 |-> m01, m02 |-> m02,
     m03 |-> m03, m04 |-> m04, m05 |-> m05,
     m06 |-> m06, m07 |-> m07, m08 |-> m08]

\* new mat3(): the constructor's default arguments
mat3_default == mat3_new(One, Zero, Zero, Zero, One, Zero, Zero, Zero, One)

\* the identity of the object a constructor call allocates
Fresh(h) == Cardinality(DOMAIN h) + 1

Alloc(h, v) == [o \in (DOMAIN h) \cup {Fresh(h)} |-> IF o \in DOMAIN h THEN h[o] ELSE v]

mat3_create(h, m00, m01, m02, m03, m04, m05, m06, m07, m08) ==
    Alloc(h, mat3_new(m00, m01, m02, m03, m04, m05, m06, m07, m08))

mat3_clone(h, a) ==
    Alloc(h, mat3_new(h[a].m00, h[a].m01, h[a].m02,
                      h[a].m03, h[a].m04, h[a].m05,
                      h[a].m06, h[a].m07, h[a].m08))

mat3_copy(h, out, a) ==
    LET h0 == [h  EXCEPT ![out].m00 = h[a].m00]
        h1 == [h0 EXCEPT ![out].m01 = h0[a].m01]
        h2 == [h1 EXCEPT ![out].m02 = h1[a].m02]
        h3 == [h2 EXCEPT ![out].m03 = h2[a].m03]
        h4 == [h3 EXCEPT ![out].m04 = h3[a].m04]
        h5 == [h4 EXCEPT ![out].m05 = h4[a].m05]
        h6 == [h5 EXCEPT ![out].m06 = h5[a].m06]
        h7 == [h6 EXCEPT ![out].m07 = h6[a].m07]
    IN  [h7 EXCEPT ![out].m08 = h7[a].m08]

mat3_set(h, out, m00, m01, m02, m10, m11, m12, m20, m21, m22) ==
    [h EXCEPT ![out] = [m00 |-> m00, m01 |-> m01, m02 |-> m02,
                        m03 |-> m10, m04 |-> m11, m05 |-> m12,
                        m06 |-> m20, m07 |-> m21, m08 |-> m22]]

\* mutant: sets the diagonal and leaves the other six elements
mat3_identity_diagonal(h, out) ==
    [h EXCEPT ![out].m00 = One, ![out].m04 = One, ![out].m08 = One]

mat3_identity(h, out) ==
    [h EXCEPT ![out] = [m00 |-> One,  m01 |-> Zero, m02 |-> Zero,
                        m03 |-> Zero, m04 |-> One,  m05 |-> Zero,
                        m06 |-> Zero, m07 |-> Zero, m08 |-> One]]

\* mutant: transposes in place without caching m01, m02 and m05
mat3_transpose_nocache(h, out, a) ==
    LET h1 == [h  EXCEPT ![out].m01 = h[a].m03]
        h2 == [h1 EXCEPT ![out].m02 = h1[a].m06]
        h3 == [h2 EXCEPT ![out].m03 = h2[a].m01]
        h4 == [h3 EXCEPT ![out].m05 = h3[a].m07]
        h5 == [h4 EXCEPT ![out].m06 = h4[a].m02]
        h6 == [h5 EXCEPT ![out].m07 = h5[a].m05]
    IN  IF out = a THEN h6
        ELSE [h6 EXCEPT ![out].m00 = h6[a].m00, ![out].m04 = h6[a].m04,
                        ![out].m08 = h6[a].m08]

mat3_transpose(h, out, a) ==
    IF out = a
    THEN LET a01 == h[a].m01
             a02 == h[a].m02
             a12 == h[a].m05
             h1 == [h  EXCEPT ![out].m01 = h[a].m03]
             h2 == [h1 EXCEPT ![out].m02 = h1[a].m06]
             h3 == [h2 EXCEPT ![out].m03 = a01]
             h4 == [h3 EXCEPT ![out].m05 = h3[a].m07]
             h5 == [h4 EXCEPT ![out].m06 = a02]
         IN  [h5 EXCEPT ![out].m07 = a12]
    ELSE LET h0 == [h  EXCEPT ![out].m00 = h[a].m00]
             h1 == [h0 EXCEPT ![out].m01 = h0[a].m03]
             h2 == [h1 EXCEPT ![out].m02 = h1[a].m06]
             h3 == [h2 EXCEPT ![out].m03 = h2[a].m01]
             h4 == [h3 EXCEPT ![out].m04 = h3[a].m04]
             h5 == [h4 EXCEPT ![out].m05 = h4[a].m07]
             h6 == [h5 EXCEPT ![out].m06 = h5[a].m02]
             h7 == [h6 EXCEPT ![out].m07 = h6[a].m05]
         IN  [h7 EXCEPT ![out].m08 = h7[a].m08]

\* mutant: scales by the determinant, not by its reciprocal
mat3_invert_unscaled(h, out, a) ==
    LET a00 == h[a].m00  a01 == h[a].m01  a02 == h[a].m02
        a10 == h[a].m03  a11 == h[a].m04  a12 == h[a].m05
        a20 == h[a].m06  a21 == h[a].m07  a22 == h[a].m08
        b01 == Sub(Mul(a22, a11), Mul(a12, a21))
        b11 == Add(Mul(Neg(a22), a10), Mul(a12, a20))
        b21 == Sub(Mul(a21, a10), Mul(a11, a20))
        det0 == Add(Add(Mul(a00, b01), Mul(a01, b11)), Mul(a02, b21))
        det == det0
    IN  IF Falsy(det0)
        THEN [h |-> h, ret |-> RetNull]
        ELSE [h |-> [h EXCEPT ![out] =
                 [m00 |-> Mul(b01, det),
                  m01 |-> Mul(Add(Mul(Neg(a22), a01), Mul(a02, a21)), det),
                  m02 |-> Mul(Sub(Mul(a12, a01), Mul(a02, a11)), det),
                  m03 |-> Mul(b11, det),
                  m04 |-> Mul(Sub(Mul(a22, a00), Mul(a02, a20)), det),
                  m05 |-> Mul(Add(Mul(Neg(a12), a00), Mul(a02, a10)), det),
                  m06 |-> Mul(b21, det),
                  m07 |-> Mul(Add(Mul(Neg(a21), a00), Mul(a01, a20)), det),
                  m08 |-> Mul(Sub(Mul(a11, a00), Mul(a01, a10)), det)]],
              ret |-> RetRef(out)]

\* mutant: returns out, unchanged, for a singular matrix
mat3_invert_nonull(h, out, a) ==
    LET a00 == h[a].m00  a01 == h[a].m01  a02 == h[a].m02
        a10 == h[a].m03  a11 == h[a].m04  a12 == h[a].m05
        a20 == h[a].m06  a21 == h[a].m07  a22 == h[a].m08
        b01 == Sub(Mul(a22, a11), Mul(a12, a21))
        b11 == Add(Mul(Neg(a22), a10), Mul(a12, a20))
        b21 == Sub(Mul(a21, a10), Mul(a11, a20))
        det0 == Add(Add(Mul(a00, b01), Mul(a01, b11)), Mul(a02, b21))
        det == Recip(det0)
    IN  IF Falsy(det0)
        THEN [h |-> h, ret |-> RetRef(out)]
        ELSE [h |-> [h EXCEPT ![out] =
                 [m00 |-> Mul(b01, det),
                  m01 |-> Mul(Add(Mul(Neg(a22), a01), Mul(a02, a21)), det),
                  m02 |-> Mul(Sub(Mul(a12, a01), Mul(a02, a11)), det),
                  m03 |-> Mul(b11, det),
                  m04 |-> Mul(Sub(Mul(a22, a00), Mul(a02, a20)), det),
                  m05 |-> Mul(Add(Mul(Neg(a12), a00), Mul(a02, a10)), det),
                  m06 |-> Mul(b21, det),
                  m07 |-> Mul(Add(Mul(Neg(a21), a00), Mul(a01, a20)), det),
                  m08 |-> Mul(Sub(Mul(a11, a00), Mul(a01, a10)), det)]],
              ret |-> RetRef(out)]

\* [h |-> the heap after the call, ret |-> what the call returns]
mat3_invert(h, out, a) ==
    LET a00 == h[a].m00  a01 == h[a].m01  a02 == h[a].m02
        a10 == h[a].m03  a11 == h[a].m04  a12 == h[a].m05
        a20 == h[a].m06  a21 == h[a].m07  a22 == h[a].m08
        b01 == Sub(Mul(a22, a11), Mul(a12, a21))
        b11 == Add(Mul(Neg(a22), a10), Mul(a12, a20))
        b21 == Sub(Mul(a21, a10), Mul(a11, a20))
        det0 == Add(Add(Mul(a00, b01), Mul(a01, b11)), Mul(a02, b21))
        det == Recip(det0)
    IN  IF Falsy(det0)
        THEN [h |-> h, ret |-> RetNull]
        ELSE [h |-> [h EXCEPT ![out] =
                 [m00 |-> Mul(b01, det),
                  m01 |-> Mul(Add(Mul(Neg(a22), a01), Mul(a02, a21)), det),
                  m02 |-> Mul(Sub(Mul(a12, a01), Mul(a02, a11)), det),
                  m03 |-> Mul(b11, det),
                  m04 |-> Mul(Sub(Mul(a22, a00), Mul(a02, a20)), det),
                  m05 |-> Mul(Add(Mul(Neg(a12), a00), Mul(a02, a10)), det),
                  m06 |-> Mul(b21, det),
                  m07 |-> Mul(Add(Mul(Neg(a21), a00), Mul(a01, a20)), det),
                  m08 |-> Mul(Sub(Mul(a11, a00), Mul(a01, a10)), det)]],
              ret |-> RetRef(out)]

\* mutant: the matrix of cofactors, not transposed
mat3_adjoint_cofactors(h, out, a) ==
    LET a00 == h[a].m00  a01 == h[a].m01  a02 == h[a].m02
        a10 == h[a].m03  a11 == h[a].m04  a12 == h[a].m05
        a20 == h[a].m06  a21 == h[a].m07  a22 == h[a].m08
    IN  [h EXCEPT ![out] =
            [m00 |-> Sub(Mul(a11, a22), Mul(a12, a21)),
             m01 |-> Sub(Mul(a12, a20), Mul(a10, a22)),
             m02 |-> Sub(Mul(a10, a21), Mul(a11, a20)),
             m03 |-> Sub(Mul(a02, a21), Mul(a01, a22)),
             m04 |-> Sub(Mul(a00, a22), Mul(a02, a20)),
             m05 |-> Sub(Mul(a01, a20), Mul(a00, a21)),
             m06 |-> Sub(Mul(a01, a12), Mul(a02, a11)),
             m07 |-> Sub(Mul(a02, a10), Mul(a00, a12)),
             m08 |-> Sub(Mul(a00, a11), Mul(a01, a10))]]

mat3_adjoint(h, out, a) ==
    LET a00 == h[a].m00  a01 == h[a].m01  a02 == h[a].m02
        a10 == h[a].m03  a11 == h[a].m04  a12 == h[a].m05
        a20 == h[a].m06  a21 == h[a].m07  a22 == h[a].m08
    IN  [h EXCEPT ![out] =
            [m00 |-> Sub(Mul(a11, a22), Mul(a12, a21)),
             m01 |-> Sub(Mul(a02, a21), Mul(a01, a22)),
             m02 |-> Sub(Mul(a01, a12), Mul(a02, a11)),
             m03 |-> Sub(Mul(a12, a20), Mul(a10, a22)),
             m04 |-> Sub(Mul(a00, a22), Mul(a02, a20)),
             m05 |-> Sub(Mul(a02, a10), Mul(a00, a12)),
             m06 |-> Sub(Mul(a10, a21), Mul(a11, a20)),
             m07 |-> Sub(Mul(a01, a20), Mul(a00, a21)),
             m08 |-> Sub(Mul(a00, a11), Mul(a01, a10))]]

\* the number determinant(a) returns, a being a mat3 value
mat3_determinant(a) ==
    LET a00 == a.m00  a01 == a.m01  a02 == a.m02
        a10 == a.m03  a11 == a.m04  a12 == a.m05
        a20 == a.m06  a21 == a.m07  a22 == a.m08
    IN  Add(Add(Mul(a00, Sub(Mul(a22, a11), Mul(a12, a21))),
                Mul(a01, Add(Mul(Neg(a22), a10), Mul(a12, a20)))),
            Mul(a02, Sub(Mul(a21, a10), Mul(a11, a20))))

mat3_multiply(h, out, a, b) ==
    LET a00 == h[a].m00  a01 == h[a].m01  a02 == h[a].m02
        a10 == h[a].m03  a11 == h[a].m04  a12 == h[a].m05
        a20 == h[a].m06  a21 == h[a].m07  a22 == h[a].m08
        b00 == h[b].m00  b01 == h[b].m01  b02 == h[b].m02
        b10 == h[b].m03  b11 == h[b].m04  b12 == h[b].m05
        b20 == h[b].m06  b21 == h[b].m07  b22 == h[b].m08
    IN  [h EXCEPT ![out] =
            [m00 |-> Add(Add(Mul(b00, a00), Mul(b01, a10)), Mul(b02, a20)),
             m01 |-> Add(Add(Mul(b00, a01), Mul(b01, a11)), Mul(b02, a21)),
             m02 |-> Add(Add(Mul(b00, a02), Mul(b01, a12)), Mul(b02, a22)),
             m03 |-> Add(Add(Mul(b10, a00), Mul(b11, a10)), Mul(b12, a20)),
             m04 |-> Add(Add(Mul(b10, a01), Mul(b11, a11)), Mul(b12, a21)),
             m05 |-> Add(Add(Mul(b10, a02), Mul(b11, a12)), Mul(b12, a22)),
             m06 |-> Add(Add(Mul(b20, a00), Mul(b21, a10)), Mul(b22, a20)),
             m07 |-> Add(Add(Mul(b20, a01), Mul(b21, a11)), Mul(b22, a21)),
             m08 |-> Add(Add(Mul(b20, a02), Mul(b21, a12)), Mul(b22, a22))]]

\* mat3.mul, the alias
mat3_mul(h, out, a, b) == mat3_multiply(h, out, a, b)

(***************************************************************************)
(* An angle is kept as the exact pair of its sine and cosine.              *)
(***************************************************************************)
Math_sin(rad) == rad.sin
Math_cos(rad) == rad.cos

\* mutant: reads the rows of a where translate reads its columns
mat3_translate_left(h, out, a, v) ==
    LET a00 == h[a].m00  a01 == h[a].m01  a02 == h[a].m02
        a10 == h[a].m03  a11 == h[a].m04  a12 == h[a].m05
        a20 == h[a].m06  a21 == h[a].m07  a22 == h[a].m08
        x == v.x
        y == v.y
    IN  [h EXCEPT ![out] =
            [m00 |-> a00, m01 |-> a01, m02 |-> a02,
             m03 |-> a10, m04 |-> a11, m05 |-> a12,
             m06 |-> Add(Add(Mul(x, a00), Mul(y, a01)), a02),
             m07 |-> Add(Add(Mul(x, a10), Mul(y, a11)), a12),
             m08 |-> Add(Add(Mul(x, a20), Mul(y, a21)), a22)]]

\* v is a vector value [x, y, z]: mat3 reads it and never writes it
mat3_translate(h, out, a, v) ==
    LET a00 == h[a].m00  a01 == h[a].m01  a02 == h[a].m02
        a10 == h[a].m03  a11 == h[a].m04  a12 == h[a].m05
        a20 == h[a].m06  a21 == h[a].m07  a22 == h[a].m08
        x == v.x
        y == v.y
    IN  [h EXCEPT ![out] =
            [m00 |-> a00, m01 |-> a01, m02 |-> a02,
             m03 |-> a10, m04 |-> a11, m05 |-> a12,
             m06 |-> Add(Add(Mul(x, a00), Mul(y, a10)), a20),
             m07 |-> Add(Add(Mul(x, a01), Mul(y, a11)), a21),
             m08 |-> Add(Add(Mul(x, a02), Mul(y, a12)), a22)]]

mat3_rotate(h, out, a, rad) ==
    LET a00 == h[a].m00  a01 == h[a].m01  a02 == h[a].m02
        a10 == h[a].m03  a11 == h[a].m04  a12 == h[a].m05
        a20 == h[a].m06  a21 == h[a].m07  a22 == h[a].m08
        s == Math_sin(rad)
        c == Math_cos(rad)
    IN  [h EXCEPT ![out] =
            [m00 |-> Add(Mul(c, a00), Mul(s, a10)),
             m01 |-> Add(Mul(c, a01), Mul(s, a11)),
             m02 |-> Add(Mul(c, a02), Mul(s, a12)),
             m03 |-> Sub(Mul(c, a10), Mul(s, a00)),
             m04 |-> Sub(Mul(c, a11), Mul(s, a01)),
             m05 |-> Sub(Mul(c, a12), Mul(s, a02)),
             m06 |-> a20, m07 |-> a21, m08 |-> a22]]

mat3_scale(h, out, a, v) ==
    LET x == v.x
        y == v.y
        h0 == [h  EXCEPT ![out].m00 = Mul(x, h[a].m00)]
        h1 == [h0 EXCEPT ![out].m01 = Mul(x, h0[a].m01)]
        h2 == [h1 EXCEPT ![out].m02 = Mul(x, h1[a].m02)]
        h3 == [h2 EXCEPT ![out].m03 = Mul(y, h2[a].m03)]
        h4 == [h3 EXCEPT ![out].m04 = Mul(y, h3[a].m04)]
        h5 == [h4 EXCEPT ![out].m05 = Mul(y, h4[a].m05)]
        h6 == [h5 EXCEPT ![out].m06 = h5[a].m06]
        h7 == [h6 EXCEPT ![out].m07 = h6[a].m07]
    IN  [h7 EXCEPT ![out].m08 = h7[a].m08]

\* a is a mat4 value, fields m00..m15
mat3_fromMat4(h, out, a) ==
    [h EXCEPT ![out] = [m00 |-> a.m00, m01 |-> a.m01, m02 |-> a.m02,
                        m03 |-> a.m04, m04 |-> a.m05, m05 |-> a.m06,
                        m06 |-> a.m08, m07 |-> a.m09, m08 |-> a.m10]]

mat3_fromTranslation(h, out, v) ==
    [h EXCEPT ![out] = [m00 |-> One,  m01 |-> Zero, m02 |-> Zero,
                        m03 |-> Zero, m04 |-> One,  m05 |-> Zero,
                        m06 |-> v.x,  m07 |-> v.y,  m08 |-> One]]

\* mutant: the signs of the two sines are exchanged
mat3_fromRotation_flipped(h, out, rad) ==
    LET s == Math_sin(rad)
        c == Math_cos(rad)
    IN  [h EXCEPT ![out] = [m00 |-> c,    m01 |-> Neg(s), m02 |-> Zero,
                            m03 |-> s,    m04 |-> c,      m05 |-> Zero,
                            m06 |-> Zero, m07 |-> Zero,   m08 |-> One]]

mat3_fromRotation(h, out, rad) ==
    LET s == Math_sin(rad)
        c == Math_cos(rad)
    IN  [h EXCEPT ![out] = [m00 |-> c,      m01 |-> s,    m02 |-> Zero,
                            m03 |-> Neg(s), m04 |-> c,    m05 |-> Zero,
                            m06 |-> Zero,   m07 |-> Zero, m08 |-> One]]

mat3_fromScaling(h, out, v) ==
    [h EXCEPT ![out] = [m00 |-> v.x,  m01 |-> Zero, m02 |-> Zero,
                        m03 |-> Zero, m04 |-> v.y,  m05 |-> Zero,
                        m06 |-> Zero, m07 |-> Zero, m08 |-> One]]

\* mutant: writes the block of the inverse, not of its transpose
mat3_normalFromMat4_inverse(h, out, a) ==
    LET a00 == a.m00  a01 == a.m01  a02 == a.m02  a03 == a.m03
        a10 == a.m04  a11 == a.m05  a12 == a.m06  a13 == a.m07
        a20 == a.m08  a21 == a.m09  a22 == a.m10  a23 == a.m11
        a30 == a.m12  a31 == a.m13  a32 == a.m14  a33 == a.m15
        b00 == Sub(Mul(a00, a11), Mul(a01, a10))
        b01 == Sub(Mul(a00, a12), Mul(a02, a10))
        b02 == Sub(Mul(a00, a13), Mul(a03, a10))
        b03 == Sub(Mul(a01, a12), Mul(a02, a11))
        b04 == Sub(Mul(a01, a13), Mul(a03, a11))
        b05 == Sub(Mul(a02, a13), Mul(a03, a12))
        b06 == Sub(Mul(a20, a31), Mul(a21, a30))
        b07 == Sub(Mul(a20, a32), Mul(a22, a30))
        b08 == Sub(Mul(a20, a33), Mul(a23, a30))
        b09 == Sub(Mul(a21, a32), Mul(a22, a31))
        b10 == Sub(Mul(a21, a33), Mul(a23, a31))
        b11 == Sub(Mul(a22, a33), Mul(a23, a32))
        det0 == Add(Sub(Add(Add(Sub(Mul(b00, b11), Mul(b01, b10)),
                                Mul(b02, b09)), Mul(b03, b08)),
                        Mul(b04, b07)), Mul(b05, b06))
        det == Recip(det0)
    IN  IF Falsy(det0)
        THEN [h |-> h, ret |-> RetNull]
        ELSE [h |-> [h EXCEPT ![out] =
                 [m00 |-> Mul(Add(Sub(Mul(a11, b11), Mul(a12, b10)), Mul(a13, b09)), det),
                  m03 |-> Mul(Sub(Sub(Mul(a12, b08), Mul(a10, b11)), Mul(a13, b07)), det),
                  m06 |-> Mul(Add(Sub(Mul(a10, b10), Mul(a11, b08)), Mul(a13, b06)), det),
                  m01 |-> Mul(Sub(Sub(Mul(a02, b10), Mul(a01, b11)), Mul(a03, b09)), det),
                  m04 |-> Mul(Add(Sub(Mul(a00, b11), Mul(a02, b08)), Mul(a03, b07)), det),
                  m07 |-> Mul(Sub(Sub(Mul(a01, b08), Mul(a00, b10)), Mul(a03, b06)), det),
                  m02 |-> Mul(Add(Sub(Mul(a31, b05), Mul(a32, b04)), Mul(a33, b03)), det),
                  m05 |-> Mul(Sub(Sub(Mul(a32, b02), Mul(a30, b05)), Mul(a33, b01)), det),
                  m08 |-> Mul(Add(Sub(Mul(a30, b04), Mul(a31, b02)), Mul(a33, b00)), det)]],
              ret |-> RetRef(out)]

\* [h |-> the heap after the call, ret |-> what the call returns]
mat3_normalFromMat4(h, out, a) ==
    LET a00 == a.m00  a01 == a.m01  a02 == a.m02  a03 == a.m03
        a10 == a.m04  a11 == a.m05  a12 == a.m06  a13 == a.m07
        a20 == a.m08  a21 == a.m09  a22 == a.m10  a23 == a.m11
        a30 == a.m12  a31 == a.m13  a32 == a.m14  a33 == a.m15
        b00 == Sub(Mul(a00, a11), Mul(a01, a10))
        b01 == Sub(Mul(a00, a12), Mul(a02, a10))
        b02 == Sub(Mul(a00, a13), Mul(a03, a10))
        b03 == Sub(Mul(a01, a12), Mul(a02, a11))
        b04 == Sub(Mul(a01, a13), Mul(a03, a11))
        b05 == Sub(Mul(a02, a13), Mul(a03, a12))
        b06 == Sub(Mul(a20, a31), Mul(a21, a30))
        b07 == Sub(Mul(a20, a32), Mul(a22, a30))
        b08 == Sub(Mul(a20, a33), Mul(a23, a30))
        b09 == Sub(Mul(a21, a32), Mul(a22, a31))
        b10 == Sub(Mul(a21, a33), Mul(a23, a31))
        b11 == Sub(Mul(a22, a33), Mul(a23, a32))
        det0 == Add(Sub(Add(Add(Sub(Mul(b00, b11), Mul(b01, b10)),
                                Mul(b02, b09)), Mul(b03, b08)),
                        Mul(b04, b07)), Mul(b05, b06))
        det == Recip(det0)
    IN  IF Falsy(det0)
        THEN [h |-> h, ret |-> RetNull]
        ELSE [h |-> [h EXCEPT ![out] =
                 [m00 |-> Mul(Add(Sub(Mul(a11, b11), Mul(a12, b10)), Mul(a13, b09)), det),
                  m01 |-> Mul(Sub(Sub(Mul(a12, b08), Mul(a10, b11)), Mul(a13, b07)), det),
                  m02 |-> Mul(Add(Sub(Mul(a10, b10), Mul(a11, b08)), Mul(a13, b06)), det),
                  m03 |-> Mul(Sub(Sub(Mul(a02, b10), Mul(a01, b11)), Mul(a03, b09)), det),
                  m04 |-> Mul(Add(Sub(Mul(a00, b11), Mul(a02, b08)), Mul(a03, b07)), det),
                  m05 |-> Mul(Sub(Sub(Mul(a01, b08), Mul(a00, b10)), Mul(a03, b06)), det),
                  m06 |-> Mul(Add(Sub(Mul(a31, b05), Mul(a32, b04)), Mul(a33, b03)), det),
                  m07 |-> Mul(Sub(Sub(Mul(a32, b02), Mul(a30, b05)), Mul(a33, b01)), det),
                  m08 |-> Mul(Add(Sub(Mul(a30, b04), Mul(a31, b02)), Mul(a33, b00)), det)]],
              ret |-> RetRef(out)]

(***************************************************************************)
(* Math.sqrt, exactly: the rational root where there is one, and otherwise *)
(* the radical <<n, d, 2>>, the non-negative square root of n/d.           *)
(***************************************************************************)
IsSquare(n) == \E r \in 0..n : r * r = n
IRoot(n) == CHOOSE r \in 0..n : r * r = n
Math_sqrt(q) ==
    IF IsSquare(q[1]) /\ IsSquare(q[2])
    THEN <<IRoot(q[1]), IRoot(q[2])>>
    ELSE <<q[1], q[2], 2>>

\* a number that enters arithmetic: a rational, never a radical
Rational(v) == CHOOSE q \in {v} : Len(q) = 2

(***************************************************************************)
(* vec3 and EPSILON (cocos/core/vmath/vec3.ts and utils.ts).  A vector     *)
(* value is [x, y, z]; the vec3 objects that lines own live in a heap.     *)
(***************************************************************************)
\* EPSILON is 0.000001, one over EpsDen
EpsDen == 1000000
EPSILON == <<1, EpsDen>>

\* q < EPSILON * EPSILON for q >= 0, without forming EpsDen * EpsDen
LtEpsSq(q) == q[1] <= ((q[2] - 1) \div EpsDen) \div EpsDen

vec3_new(x, y, z) == [x |-> x, y |-> y, z |-> z]

vec3_sqrMag(a) == Add(Add(Mul(a.x, a.x), Mul(a.y, a.y)), Mul(a.z, a.z))

\* the value vec3.cross(out, a, b) leaves in out
vec3_cross(a, b) ==
    vec3_new(Sub(Mul(a.y, b.z), Mul(a.z, b.y)),
             Sub(Mul(a.z, b.x), Mul(a.x, b.z)),
             Sub(Mul(a.x, b.y), Mul(a.y, b.x)))

\* the value vec3.normalize(out, a) leaves in out, out holding o before
vec3_normalize(o, a) ==
    LET len0 == vec3_sqrMag(a)
        len == Recip(Rational(Math_sqrt(len0)))
    IN  IF Lt(Zero, len0)
        THEN vec3_new(Mul(a.x, len), Mul(a.y, len), Mul(a.z, len))
        ELSE o

\* vec3.copy(out, a) on the heap V of vec3 objects
vec3_copy(V, out, a) ==
    LET V0 == [V  EXCEPT ![out].x = V[a].x]
        V1 == [V0 EXCEPT ![out].y = V0[a].y]
    IN  [V1 EXCEPT ![out].z = V1[a].z]

vec3_distance(a, b) ==
    LET x == Sub(b.x, a.x)
        y == Sub(b.y, a.y)
        z == Sub(b.z, a.z)
    IN  Math_sqrt(Add(Add(Mul(x, x), Mul(y, y)), Mul(z, z)))

(***************************************************************************)
(* mat3.fromViewUp.  sc is the closure's state [default_up, x, y]; view is *)
(* a vector value and up is <<>> when omitted, <<u>> when given.           *)
(* [h |-> the mat3 heap, sc |-> the closure after the call]                *)
(***************************************************************************)
fromViewUp_closure ==
    [default_up |-> vec3_new(Zero, One, Zero),
     x |-> vec3_new(Zero, Zero, Zero),
     y |-> vec3_new(Zero, Zero, Zero)]

\* mutant: computes y from x before this call has written x
mat3_fromViewUp_stale(h, sc, out, view, up) ==
    IF LtEpsSq(vec3_sqrMag(view))
    THEN [h |-> mat3_identity(h, out), sc |-> sc]
    ELSE LET up1 == IF up = <<>> THEN sc.default_up ELSE up[1]
             sc1 == [sc  EXCEPT !.y = vec3_cross(view, sc.x)]
             sc2 == [sc1 EXCEPT !.x = vec3_normalize(vec3_cross(up1, view), vec3_cross(up1, view))]
         IN  IF LtEpsSq(vec3_sqrMag(sc2.x))
             THEN [h |-> mat3_identity(h, out), sc |-> sc2]
             ELSE LET sc3 == sc2
                  IN  [h |-> mat3_set(h, out, sc3.x.x, sc3.x.y, sc3.x.z,
                                              sc3.y.x, sc3.y.y, sc3.y.z,
                                              view.x, view.y, view.z),
                       sc |-> sc3]

\* mutant: does not test the cross product of up and view
mat3_fromViewUp_unchecked(h, sc, out, view, up) ==
    IF LtEpsSq(vec3_sqrMag(view))
    THEN [h |-> mat3_identity(h, out), sc |-> sc]
    ELSE LET up1 == IF up = <<>> THEN sc.default_up ELSE up[1]
             sc1 == [sc  EXCEPT !.x = vec3_cross(up1, view)]
             sc2 == [sc1 EXCEPT !.x = vec3_normalize(sc1.x, sc1.x)]
             sc3 == [sc2 EXCEPT !.y = vec3_cross(view, sc2.x)]
         IN  [h |-> mat3_set(h, out, sc3.x.x, sc3.x.y, sc3.x.z,
                                     sc3.y.x, sc3.y.y, sc3.y.z,
                                     view.x, view.y, view.z),
              sc |-> sc3]

mat3_fromViewUp(h, sc, out, view, up) ==
    IF LtEpsSq(vec3_sqrMag(view))
    THEN [h |-> mat3_identity(h, out), sc |-> sc]
    ELSE LET up1 == IF up = <<>> THEN sc.default_up ELSE up[1]
             sc1 == [sc  EXCEPT !.x = vec3_cross(up1, view)]
             sc2 == [sc1 EXCEPT !.x = vec3_normalize(sc1.x, sc1.x)]
         IN  IF LtEpsSq(vec3_sqrMag(sc2.x))
             THEN [h |-> mat3_identity(h, out), sc |-> sc2]
             ELSE LET sc3 == [sc2 EXCEPT !.y = vec3_cross(view, sc2.x)]
                  IN  [h |-> mat3_set(h, out, sc3.x.x, sc3.x.y, sc3.x.z,
                                              sc3.y.x, sc3.y.y, sc3.y.z,
                                              view.x, view.y, view.z),
                       sc |-> sc3]

(***************************************************************************)
(* line.  V is the heap of vec3 objects and L the heap of line objects; a  *)
(* line object holds the identities of its two vec3 objects, s and e.      *)
(* A call that allocates returns [V, L, ret]; the others return the heap   *)
(* they write.                                                             *)
(***************************************************************************)
\* new line(sx, sy, sz, ex, ey, ez)
line_new(V, L, sx, sy, sz, ex, ey, ez) ==
    LET V1 == Alloc(V, vec3_new(sx, sy, sz))
        V2 == Alloc(V1, vec3_new(ex, ey, ez))
    IN  [V |-> V2,
         L |-> Alloc(L, [type |-> "SHAPE_LINE", s |-> Fresh(V), e |-> Fresh(V1)]),
         ret |-> RetRef(Fresh(L))]

\* new line(): the constructor's default arguments
line_default(V, L) == line_new(V, L, Zero, Zero, Zero, Zero, Zero, Neg(One))

line_create(V, L, sx, sy, sz, ex, ey, ez) == line_new(V, L, sx, sy, sz, ex, ey, ez)

\* mutant: the clone holds the two vec3 objects of the original
line_clone_shared(V, L, a) ==
    [V |-> V,
     L |-> Alloc(L, [type |-> "SHAPE_LINE", s |-> L[a].s, e |-> L[a].e]),
     ret |-> RetRef(Fresh(L))]

line_clone(V, L, a) ==
    line_new(V, L, V[L[a].s].x, V[L[a].s].y, V[L[a].s].z,
                   V[L[a].e].x, V[L[a].e].y, V[L[a].e].z)

line_copy(V, L, out, a) ==
    LET V1 == vec3_copy(V, L[out].s, L[a].s)
    IN  vec3_copy(V1, L[out].e, L[a].e)

\* start and end are identities of vec3 objects
line_fromPoints(V, L, out, start, end) ==
    LET V1 == vec3_copy(V, L[out].s, start)
    IN  vec3_copy(V1, L[out].e, end)

line_set(V, L, out, sx, sy, sz, ex, ey, ez) ==
    LET V0 == [V  EXCEPT ![L[out].s].x = sx]
        V1 == [V0 EXCEPT ![L[out].s].y = sy]
        V2 == [V1 EXCEPT ![L[out].s].z = sz]
        V3 == [V2 EXCEPT ![L[out].e].x = ex]
        V4 == [V3 EXCEPT ![L[out].e].y = ey]
    IN  [V4 EXCEPT ![L[out].e].z = ez]

\* mutant: measures from the start point to itself
line_magnitude_start(V, L, a) == vec3_distance(V[L[a].s], V[L[a].s])

line_magnitude(V, L, a) == vec3_distance(V[L[a].s], V[L[a].e])

line_mag(V, L, a) == line_magnitude(V, L, a)

(***************************************************************************)
(* Inputs.                                                                 *)
(***************************************************************************)
ColList ==
    << <<1, 2, -1>>, <<2, -1, 3>>, <<-1, 1, 2>>, <<0, 1, 0>>,
       <<1, 0, 0>>, <<0, 0, 1>>, <<3, 1, -2>> >>

Cols == {ColList[i] : i \in 1..NCols}

\* the matrices mat3.create builds from three of the columns
Seeds ==
    {mat3_new(R(c0[1]), R(c0[2]), R(c0[3]),
              R(c1[1]), R(c1[2]), R(c1[3]),
              R(c2[1]), R(c2[2]), R(c2[3])) : c0 \in Cols, c1 \in Cols, c2 \in Cols}

\* a mat4 is built from three of the columns, a bottom row w and a last column t
ExtraList ==
    << [w |-> <<0, 0, 0>>, t |-> <<1, -2, 3, 1>>],
       [w |-> <<1, 0, -1>>, t |-> <<0, 1, 1, 2>>],
       [w |-> <<0, 0, 0>>, t |-> <<0, 0, 0, 2>>],
       [w |-> <<2, 1, 1>>, t |-> <<1, 1, 0, 0>>] >>

Extras == {ExtraList[i] : i \in 1..NExtra}

mat4_new(m00, m01, m02, m03, m04, m05, m06, m07, m08, m09, m10, m11, m12, m13, m14, m15) ==
    [m00 |-> m00, m01 |-> m01, m02 |-> m02, m03 |-> m03,
     m04 |-> m04, m05 |-> m05, m06 |-> m06, m07 |-> m07,
     m08 |-> m08, m09 |-> m09, m10 |-> m10, m11 |-> m11,
     m12 |-> m12, m13 |-> m13, m14 |-> m14, m15 |-> m15]

mat4_identity ==
    mat4_new(One, Zero, Zero, Zero, Zero, One, Zero, Zero,
             Zero, Zero, One, Zero, Zero, Zero, Zero, One)

Seeds4 ==
    {mat4_new(R(c0[1]), R(c0[2]), R(c0[3]), R(x.w[1]),
              R(c1[1]), R(c1[2]), R(c1[3]), R(x.w[2]),
              R(c2[1]), R(c2[2]), R(c2[3]), R(x.w[3]),
              R(x.t[1]), R(x.t[2]), R(x.t[3]), R(x.t[4])) :
         c0 \in Cols, c1 \in Cols, c2 \in Cols, x \in Extras}

\* the offsets and scale vectors passed to translate, scale, fromTranslation, fromScaling
Vecs == {vec3_new(R(2), R(-1), Zero), vec3_new(Zero, R(3), Zero)}

\* the angles passed to rotate and fromRotation: a quarter turn and the 3-4-5 angle
Rads == {[sin |-> One, cos |-> Zero], [sin |-> <<3, 5>>, cos |-> <<4, 5>>]}

(***************************************************************************)
(* The state: the heap of mat3 objects, the mat4 at hand, the heaps of     *)
(* vec3 and line objects, the closure of fromViewUp, what the last call    *)
(* returned, the last call (with its operand a, or else its out, and the   *)
(* closure, as they were before the call), and how many calls were made.   *)
(***************************************************************************)
NoCall == [op |-> "none", out |-> 0, a |-> 0, pre |-> mat3_default,
           sc |-> fromViewUp_closure]

InitObjects ==
    /\ LET l == line_default(<<>>, <<>>)
       IN  vecs = l.V /\ lines = l.L
    /\ scratch = fromViewUp_closure
    /\ ret = RetNull
    /\ last = NoCall
    /\ steps = 0

\* SpecAlg: two matrices and a mat4; a behaviour draws one of them as its
\* input and makes one call
InitAlg ==
    /\ \/ \E A \in Seeds : mats = <<A, mat3_default>> /\ m4 = mat4_identity
       \/ \E B \in Seeds4 : mats = <<mat3_default, mat3_default>> /\ m4 = B
    /\ InitObjects

Ids == DOMAIN mats

Call(op, out, a, h, r) ==
    /\ last = NoCall
    /\ mats' = h
    /\ ret' = r
    /\ last' = [op |-> op, out |-> out, a |-> a,
                pre |-> IF a \in Ids THEN mats[a]
                        ELSE IF out \in Ids THEN mats[out] ELSE mat3_default,
                sc |-> scratch]
    /\ steps' = steps + 1
    /\ UNCHANGED <<m4, vecs, lines, scratch>>

Identity == \E out \in Ids : Call("identity", out, 0, mat3_identity(mats, out), RetRef(out))

Transpose ==
    \E out \in Ids, a \in Ids :
        Call("transpose", out, a, mat3_transpose(mats, out, a), RetRef(out))

Invert ==
    \E out \in Ids, a \in Ids :
        LET r == mat3_invert(mats, out, a) IN Call("invert", out, a, r.h, r.ret)

Adjoint ==
    \E out \in Ids, a \in Ids :
        Call("adjoint", out, a, mat3_adjoint(mats, out, a), RetRef(out))

Determinant ==
    \E a \in Ids : Call("determinant", 0, a, mats, RetNum(mat3_determinant(mats[a])))

Multiply ==
    \E out \in Ids, a \in Ids, b \in Ids :
        Call("multiply", out, a, mat3_multiply(mats, out, a, b), RetRef(out))

Translate ==
    \E out \in Ids, a \in Ids, v \in Vecs :
        Call("translate", out, a, mat3_translate(mats, out, a, v), RetRef(out))

Rotate ==
    \E out \in Ids, a \in Ids, rad \in Rads :
        Call("rotate", out, a, mat3_rotate(mats, out, a, rad), RetRef(out))

Scale ==
    \E out \in Ids, a \in Ids, v \in Vecs :
        Call("scale", out, a, mat3_scale(mats, out, a, v), RetRef(out))

FromMat4 == \E out \in Ids : Call("fromMat4", out, 0, mat3_fromMat4(mats, out, m4), RetRef(out))

FromTranslation ==
    \E out \in Ids, v \in Vecs :
        Call("fromTranslation", out, 0, mat3_fromTranslation(mats, out, v), RetRef(out))

FromRotation ==
    \E out \in Ids, rad \in Rads :
        Call("fromRotation", out, 0, mat3_fromRotation(mats, out, rad), RetRef(out))

FromScaling ==
    \E out \in Ids, v \in Vecs :
        Call("fromScaling", out, 0, mat3_fromScaling(mats, out, v), RetRef(out))

NormalFromMat4 ==
    \E out \in Ids :
        LET r == mat3_normalFromMat4(mats, out, m4) IN Call("normalFromMat4", out, 0, r.h, r.ret)

NextAlg ==
    \/ Identity \/ Transpose \/ Invert \/ Adjoint \/ Determinant \/ Multiply
    \/ Translate \/ Rotate \/ Scale
    \/ FromMat4 \/ FromTranslation \/ FromRotation \/ FromScaling \/ NormalFromMat4

SpecAlg == InitAlg /\ [][NextAlg]_vars

(***************************************************************************)
(* mat3.equals on two mat3 values: equality within EPSILON, relative to    *)
(* the larger of 1 and the two magnitudes.                                 *)
(***************************************************************************)
Near(x, y) == Le(RAbs(Sub(x, y)), Mul(EPSILON, RMax(One, RMax(RAbs(x), RAbs(y)))))

mat3_equals(a, b) ==
    /\ Near(a.m00, b.m00) /\ Near(a.m01, b.m01) /\ Near(a.m02, b.m02)
    /\ Near(a.m03, b.m03) /\ Near(a.m04, b.m04) /\ Near(a.m05, b.m05)
    /\ Near(a.m06, b.m06) /\ Near(a.m07, b.m07) /\ Near(a.m08, b.m08)

(***************************************************************************)
(* Reference linear algebra, by Laplace expansion along the first row, on  *)
(* a 3x3 or 4x4 matrix given as a sequence of rows.                        *)
(***************************************************************************)
Drop(sq, j) == [i \in 1..(Len(sq) - 1) |-> IF i < j THEN sq[i] ELSE sq[i + 1]]
Minor(M, i, j) == [r \in 1..(Len(M) - 1) |-> Drop(Drop(M, i)[r], j)]
Sign(k) == IF k % 2 = 0 THEN One ELSE Neg(One)

Det2(a, b, c, d) == Sub(Mul(a, d), Mul(b, c))

Det3(M) ==
    Add(Sub(Mul(M[1][1], Det2(M[2][2], M[2][3], M[3][2], M[3][3])),
            Mul(M[1][2], Det2(M[2][1], M[2][3], M[3][1], M[3][3]))),
        Mul(M[1][3], Det2(M[2][1], M[2][2], M[3][1], M[3][2])))

\* the determinant of a 3x3 or 4x4 matrix
DetRef(M) ==
    IF Len(M) = 3 THEN Det3(M)
    ELSE LET t(j) == Mul(Mul(Sign(1 + j), M[1][j]), Det3(Minor(M, 1, j)))
         IN  Add(Add(Add(t(1), t(2)), t(3)), t(4))

Cofactor(M, i, j) == Mul(Sign(i + j), Det3(Minor(M, i, j)))

\* column-major storage: field 4c + r of a mat4 is row r, column c
Rows4(a) ==
    << <<a.m00, a.m04, a.m08, a.m12>>,
       <<a.m01, a.m05, a.m09, a.m13>>,
       <<a.m02, a.m06, a.m10, a.m14>>,
       <<a.m03, a.m07, a.m11, a.m15>> >>

\* the upper-left 3x3 block of the transpose of the inverse of M, as a mat3:
\* row r, column c of it is Cofactor(M, r, c) / det M
NormalRef(M) ==
    LET d == Recip(DetRef(M))
    IN  mat3_new(Mul(Cofactor(M, 1, 1), d), Mul(Cofactor(M, 2, 1), d), Mul(Cofactor(M, 3, 1), d),
                 Mul(Cofactor(M, 1, 2), d), Mul(Cofactor(M, 2, 2), d), Mul(Cofactor(M, 3, 2), d),
                 Mul(Cofactor(M, 1, 3), d), Mul(Cofactor(M, 2, 3), d), Mul(Cofactor(M, 3, 3), d))

(***************************************************************************)
(* Claims about the matrix algebra, checked under SpecAlg.                 *)
(***************************************************************************)
Asymmetric(m) == m.m01 # m.m03 /\ m.m02 # m.m06 /\ m.m05 # m.m07

\* C1: transposing twice gives back the matrix, element for element, whether
\* either transpose writes a distinct matrix or transposes in place; and once
\* transpose has run, transposing its result gives the operand as it was.
C1_TransposeTwice ==
    /\ \A a \in Ids, t1 \in Ids, t2 \in Ids :
           mat3_transpose(mat3_transpose(mats, t1, a), t2, t1)[t2] = mats[a]
    /\ last.op = "transpose" =>
           \A t2 \in Ids : mat3_transpose(mats, t2, last.out)[t2] = last.pre

\* transpose has run in place on a matrix no two mirrored elements of which agree
C1_Witness ==
    /\ last.op = "transpose" /\ last.out = last.a
    /\ Asymmetric(last.pre)
    /\ mats[last.out] # last.pre
    /\ mat3_transpose(mats, last.out, last.out)[last.out] = last.pre

C7_DeterminantOfIdentity ==
    /\ mat3_determinant(mat3_default) = One
    /\ mat3_determinant(mat3_create(mats, One, Zero, Zero, Zero, One, Zero,
                                    Zero, Zero, One)[Fresh(mats)]) = One
    /\ \A out \in Ids : mat3_determinant(mat3_identity(mats, out)[out]) = One
    /\ last.op = "identity" => mat3_determinant(mats[last.out]) = One

\* identity has overwritten a matrix whose determinant was not 1
C7_Witness ==
    /\ last.op = "identity"
    /\ mat3_determinant(last.pre) # One
    /\ mats[last.out] = mat3_default
    /\ mat3_determinant(mats[last.out]) = One

\* an affine mat4: its bottom row is 0 0 0 1
Affine(a) == a.m03 = Zero /\ a.m07 = Zero /\ a.m11 = Zero /\ a.m15 = One

\* the nine fields transpose(invert(fromMat4(a))) leaves in a scratch matrix t
NormalOfBlock(h, t, a) ==
    LET r == mat3_invert(mat3_fromMat4(h, t, a), t, t)
    IN  mat3_transpose(r.h, t, t)[t]

C9_FromIsIdentityThenOp ==
    \A dest \in Ids :
        LET id == mat3_identity(mats, dest)
        IN  /\ \A v \in Vecs :
                   /\ mat3_fromTranslation(mats, dest, v)[dest]
                          = mat3_translate(id, dest, dest, v)[dest]
                   /\ mat3_fromScaling(mats, dest, v)[dest]
                          = mat3_scale(id, dest, dest, v)[dest]
            /\ \A rad \in Rads :
                   mat3_fromRotation(mats, dest, rad)[dest]
                       = mat3_rotate(id, dest, dest, rad)[dest]

\* fromRotation has overwritten a matrix that was not the identity, and the
\* result is what identity; rotate gives
C9_Witness ==
    /\ last.op = "fromRotation"
    /\ last.pre # mat3_default
    /\ mats[last.out].m01 \notin {Zero, One}
    /\ \E rad \in Rads :
           mats[last.out] =
               mat3_rotate(mat3_identity(mats, last.out), last.out, last.out, rad)[last.out]

\* C10: translate(out, a, v) equals multiply(out, a, fromTranslation(t, v)) and
\* scale(out, a, v) equals multiply(out, a, fromScaling(t, v)), element for
\* element, t being a matrix other than a: the transform is the right operand.
C10_TransformIsRightMultiply ==
    \A out \in Ids, a \in Ids, t \in Ids, v \in Vecs :
        t # a =>
            /\ mat3_translate(mats, out, a, v)[out]
                   = mat3_multiply(mat3_fromTranslation(mats, t, v), out, a, t)[out]
            /\ mat3_scale(mats, out, a, v)[out]
                   = mat3_multiply(mat3_fromScaling(mats, t, v), out, a, t)[out]

\* translate has run on a matrix that does not commute with the translation:
\* the result is a times the translation and not the translation times a
C10_Witness ==
    /\ last.op = "translate" /\ last.out # last.a
    /\ mats[last.a] = last.pre
    /\ \E v \in Vecs :
           LET h == mat3_fromTranslation(mats, last.out, v)
           IN  /\ mats[last.out] = mat3_multiply(h, last.out, last.a, last.out)[last.out]
               /\ mats[last.out] # mat3_multiply(h, last.out, last.out, last.a)[last.out]

\* d times the identity matrix
ScaledIdentity(d) == mat3_new(d, Zero, Zero, Zero, d, Zero, Zero, Zero, d)

\* the product a times b of two mat3 values, as multiply computes it
Product(a, b) == mat3_multiply(<<a, b, mat3_default>>, 3, 1, 2)[3]

\* each element of inv is the element of adj divided by d
ElementsOver(inv, adj, d) ==
    /\ inv.m00 = Mul(adj.m00, Recip(d)) /\ inv.m01 = Mul(adj.m01, Recip(d))
    /\ inv.m02 = Mul(adj.m02, Recip(d)) /\ inv.m03 = Mul(adj.m03, Recip(d))
    /\ inv.m04 = Mul(adj.m04, Recip(d)) /\ inv.m05 = Mul(adj.m05, Recip(d))
    /\ inv.m06 = Mul(adj.m06, Recip(d)) /\ inv.m07 = Mul(adj.m07, Recip(d))
    /\ inv.m08 = Mul(adj.m08, Recip(d))

PtList == << <<1, 2, 2>>, <<0, 0, 0>>, <<3, 4, 0>>, <<0, 0, -1>> >>

Pts == {vec3_new(R(PtList[i][1]), R(PtList[i][2]), R(PtList[i][3])) : i \in 1..NPts}

\* the value of a line object: the coordinates of its two points
LineVal(V, L, a) == [s |-> V[L[a].s], e |-> V[L[a].e]]

LineIds == DOMAIN lines

InitObj ==
    /\ mats = <<mat3_default>>
    /\ m4 = mat4_identity
    /\ InitObjects

\* a call on lines: V and L are the heaps after it
LineCall(op, out, a, V, L, r) ==
    /\ steps < MaxCalls
    /\ vecs' = V
    /\ lines' = L
    /\ ret' = r
    /\ last' = [op |-> op, out |-> out, a |-> a,
                pre |-> IF a \in LineIds THEN LineVal(vecs, lines, a)
                        ELSE IF out \in LineIds THEN LineVal(vecs, lines, out)
                        ELSE LineVal(vecs, lines, 1),
                sc |-> scratch]
    /\ steps' = steps + 1
    /\ UNCHANGED <<mats, m4, scratch>>

LineCreate ==
    \E s \in Pts, e \in Pts :
        /\ Cardinality(LineIds) < MaxObjs
        /\ LET r == line_create(vecs, lines, s.x, s.y, s.z, e.x, e.y, e.z)
           IN  LineCall("line.create", r.ret.id, 0, r.V, r.L, r.ret)

LineClone ==
    \E a \in LineIds :
        /\ Cardinality(LineIds) < MaxObjs
        /\ LET r == line_clone(vecs, lines, a)
           IN  LineCall("line.clone", r.ret.id, a, r.V, r.L, r.ret)

LineCopy ==
    \E out \in LineIds, a \in LineIds :
        LineCall("line.copy", out, a, line_copy(vecs, lines, out, a), lines, RetRef(out))

\* the points passed are the two vec3 objects of a line, in either order
LineFromPoints ==
    \E out \in LineIds, b \in LineIds, swap \in BOOLEAN :
        LET start == IF swap THEN lines[b].e ELSE lines[b].s
            end == IF swap THEN lines[b].s ELSE lines[b].e
        IN  LineCall("line.fromPoints", out, b,
                     line_fromPoints(vecs, lines, out, start, end), lines, RetRef(out))

LineSet ==
    \E out \in LineIds, s \in Pts, e \in Pts :
        LineCall("line.set", out, 0,
                 line_set(vecs, lines, out, s.x, s.y, s.z, e.x, e.y, e.z), lines, RetRef(out))

LineMagnitude ==
    \E a \in LineIds :
        LineCall("line.magnitude", 0, a, vecs, lines, RetNum(line_magnitude(vecs, lines, a)))

LineMag ==
    \E a \in LineIds :
        LineCall("line.mag", 0, a, vecs, lines, RetNum(line_mag(vecs, lines, a)))

\* a call on mat3 objects: h is the heap after it
MatCall(op, out, a, h, sc, r) ==
    /\ steps < MaxCalls
    /\ mats' = h
    /\ scratch' = sc
    /\ ret' = r
    /\ last' = [op |-> op, out |-> out, a |-> a,
                pre |-> IF a \in Ids THEN mats[a]
                        ELSE IF out \in Ids THEN mats[out] ELSE mat3_default,
                sc |-> scratch]
    /\ steps' = steps + 1
    /\ UNCHANGED <<m4, vecs, lines>>

MatCreate ==
    \E c0 \in Cols, c1 \in Cols :
        /\ Cardinality(Ids) < MaxObjs
        /\ MatCall("mat3.create", Fresh(mats), 0,
                   mat3_create(mats, R(c0[1]), R(c0[2]), R(c0[3]),
                                     R(c1[1]), R(c1[2]), R(c1[3]),
                                     Zero, Zero, One),
                   scratch, RetRef(Fresh(mats)))

MatClone ==
    \E a \in Ids :
        /\ Cardinality(Ids) < MaxObjs
        /\ MatCall("mat3.clone", Fresh(mats), a, mat3_clone(mats, a), scratch,
                   RetRef(Fresh(mats)))

MatCopy ==
    \E out \in Ids, a \in Ids :
        MatCall("mat3.copy", out, a, mat3_copy(mats, out, a), scratch, RetRef(out))

MatSet ==
    \E out \in Ids, c \in Cols :
        MatCall("mat3.set", out, 0,
                mat3_set(mats, out, R(c[1]), R(c[2]), R(c[3]), Zero, One, Zero,
                                    R(c[3]), R(c[2]), R(c[1])),
                scratch, RetRef(out))

MatTranspose ==
    \E out \in Ids, a \in Ids :
        MatCall("mat3.transpose", out, a, mat3_transpose(mats, out, a), scratch, RetRef(out))

NextObj ==
    \/ LineCreate \/ LineClone \/ LineCopy \/ LineFromPoints \/ LineSet
    \/ LineMagnitude \/ LineMag
    \/ MatCreate \/ MatClone \/ MatCopy \/ MatSet \/ MatTranspose

SpecObj == InitObj /\ [][NextObj]_vars

(***************************************************************************)
(* SpecView: fromViewUp is called again and again, between other calls.    *)
(***************************************************************************)
ViewList ==
    << <<Zero, Zero, One>>, <<Zero, Zero, Zero>>, <<Zero, One, Zero>>,
       << <<3, 5>>, <<4, 5>>, Zero>>, <<One, Zero, Zero>>, <<Zero, R(-2), Zero>> >>

Views == {vec3_new(ViewList[i][1], ViewList[i][2], ViewList[i][3]) : i \in 1..NViews}

\* up, given or omitted
Ups == {<<>>} \cup {<<u>> : u \in Views}

InitView ==
    /\ mats = <<mat3_default, mat3_default>>
    /\ m4 = mat4_identity
    /\ InitObjects

FromViewUp ==
    \E out \in Ids, view \in Views, up \in Ups :
        LET r == mat3_fromViewUp(mats, scratch, out, view, up)
        IN  MatCall("fromViewUp", out, 0, r.h, r.sc, RetRef(out))

NextView == FromViewUp \/ MatCopy \/ MatTranspose

SpecView == InitView /\ [][NextView]_vars

(***************************************************************************)
(* Claims about objects and state, checked under SpecView and SpecObj.     *)
(***************************************************************************)
\* the statement of C4 as written: no call writes state that outlives it
C4_NoPersistentState == scratch = fromViewUp_closure

\* C4: fromViewUp writes the scratch vectors x and y of its closure, which
\* outlive the call, but it never writes default_up and reads x and y only
\* after writing them, so what a call leaves in out depends on its arguments
\* alone and is the same after any sequence of earlier calls.
C4_ResultIndependentOfHistory ==
    /\ scratch.default_up = fromViewUp_closure.default_up
    /\ \A out \in Ids, view \in Views, up \in Ups :
           mat3_fromViewUp(mats, scratch, out, view, up).h[out]
               = mat3_fromViewUp(mats, fromViewUp_closure, out, view, up).h[out]
    /\ last.op = "fromViewUp" =>
           \E view \in Views, up \in Ups :
               mats[last.out]
                   = mat3_fromViewUp(mats, fromViewUp_closure, last.out, view, up).h[last.out]

\* fromViewUp has run with a closure an earlier call had written, has written
\* the closure again, and has left a matrix other than the identity
C4_Witness ==
    /\ last.op = "fromViewUp"
    /\ last.sc # fromViewUp_closure
    /\ scratch # last.sc
    /\ mats[last.out] # mat3_default

\* the zero vector
vec3_zero == vec3_new(Zero, Zero, Zero)

\* what fromViewUp is to leave in out: the identity for a view of squared
\* magnitude below EPSILON squared or an up whose cross product with view is
\* zero, and otherwise the columns x = normalize(cross(up, view)),
\* y = cross(view, x) and view
ViewUpRef(view, up) ==
    LET u == IF up = <<>> THEN vec3_new(Zero, One, Zero) ELSE up[1]
        c == vec3_cross(u, view)
    IN  IF LtEpsSq(vec3_sqrMag(view)) \/ c = vec3_zero
        THEN mat3_new(One, Zero, Zero, Zero, One, Zero, Zero, Zero, One)
        ELSE LET x == vec3_normalize(c, c)
                 y == vec3_cross(view, x)
             IN  mat3_new(x.x, x.y, x.z, y.x, y.y, y.z, view.x, view.y, view.z)

\* C12: fromViewUp is total: for every view and every up, given or omitted, it
\* returns out, writes no other matrix, and leaves in out the identity when
\* view is the zero vector or the cross product of up (default (0,1,0)) and
\* view is zero, and otherwise the columns x = normalize(cross(up, view)),
\* y = cross(view, x) and view.
C12_FromViewUpTotal ==
    /\ \A out \in Ids, view \in Views, up \in Ups :
           LET r == mat3_fromViewUp(mats, scratch, out, view, up)
           IN  /\ DOMAIN r.h = Ids
               /\ r.h[out] = ViewUpRef(view, up)
               /\ \A o \in Ids \ {out} : r.h[o] = mats[o]
    /\ last.op = "fromViewUp" =>
           /\ ret = RetRef(last.out)
           /\ \E view \in Views, up \in Ups : mats[last.out] = ViewUpRef(view, up)

\* fromViewUp has run with an up parallel to a view that is not zero: it has
\* written the zero cross product over the x an earlier call had left in the
\* closure, put the identity over the frame that call had left in out, and
\* returned out
C12_Witness ==
    /\ last.op = "fromViewUp" /\ ret = RetRef(last.out)
    /\ last.sc.x # vec3_zero /\ scratch.x = vec3_zero
    /\ last.pre # mat3_default
    /\ mats[last.out] = mat3_default
    /\ \E view \in Views, up \in Ups :
           /\ ~LtEpsSq(vec3_sqrMag(view))
           /\ mat3_fromViewUp(mats, last.sc, last.out, view, up).sc = scratch

IsLineOp(op) ==
    op \in {"line.create", "line.clone", "line.copy", "line.fromPoints", "line.set",
            "line.magnitude", "line.mag"}

\* no two line objects share a vec3 object, and no line's two points are one object
NoSharing ==
    /\ \A a \in LineIds : lines[a].s # lines[a].e
    /\ \A a \in LineIds, b \in LineIds :
           a # b => {lines[a].s, lines[a].e} \cap {lines[b].s, lines[b].e} = {}

C5_ValueEqual ==
    /\ NoSharing
    /\ last.op = "line.clone" =>
           /\ ret.id # last.a
           /\ LineVal(vecs, lines, ret.id) = last.pre
           /\ LineVal(vecs, lines, last.a) = last.pre
    /\ last.op = "line.copy" =>
           /\ LineVal(vecs, lines, last.out) = last.pre
           /\ LineVal(vecs, lines, last.a) = last.pre
    /\ last.op = "mat3.clone" =>
           /\ ret.id # last.a
           /\ mats[ret.id] = last.pre
           /\ mats[last.a] = last.pre
    /\ last.op = "mat3.copy" =>
           /\ mats[last.out] = last.pre
           /\ mats[last.a] = last.pre

\* a call changes the value of no line and no matrix other than its out
C5_Frame ==
    /\ \A l \in LineIds :
           (IsLineOp(last'.op) /\ l = last'.out)
               \/ LineVal(vecs', lines', l) = LineVal(vecs, lines, l)
    /\ \A m \in Ids :
           (~IsLineOp(last'.op) /\ m = last'.out) \/ mats'[m] = mats[m]

\* C5: after clone or copy the result equals the original field by field, no
\* two lines share a vec3 object, and a later call that writes one object
\* leaves every other object as it was.
C5_CopiesAreIndependent == []C5_ValueEqual /\ [][C5_Frame]_vars

\* line.set has written a line that was equal to another line, the clone it
\* was made as, and the other line is as it was
C5_Witness ==
    /\ last.op = "line.set"
    /\ \E a \in LineIds :
           /\ a # last.out
           /\ LineVal(vecs, lines, a) = last.pre
           /\ LineVal(vecs, lines, last.out) # last.pre

\* the Euclidean distance between two points
Euclid(p, q) ==
    Math_sqrt(Add(Add(Mul(Sub(p.x, q.x), Sub(p.x, q.x)),
                      Mul(Sub(p.y, q.y), Sub(p.y, q.y))),
                  Mul(Sub(p.z, q.z), Sub(p.z, q.z))))

\* a rational or a radical that is not negative
NonNegative(v) == v[1] >= 0 /\ v[2] > 0

\* C6: magnitude(L) is the Euclidean distance between L.s and L.e, is not
\* negative, is zero exactly when the two points are equal and is 1 for the
\* default-constructed line; mag(L) returns the same, and neither changes L.
C6_Magnitude ==
    /\ LET l == line_default(<<>>, <<>>) IN line_magnitude(l.V, l.L, l.ret.id) = One
    /\ \A a \in LineIds :
           LET v == LineVal(vecs, lines, a)
               m == line_magnitude(vecs, lines, a)
           IN  /\ m = Euclid(v.s, v.e)
               /\ NonNegative(m)
               /\ (m = Zero) <=> (v.s = v.e)
               /\ line_mag(vecs, lines, a) = m
    /\ last.op \in {"line.magnitude", "line.mag"} =>
           /\ ret = RetNum(Euclid(last.pre.s, last.pre.e))
           /\ LineVal(vecs, lines, last.a) = last.pre

\* mag has returned the length 3 of a line whose points differ in every coordinate
C6_Witness ==
    /\ last.op = "line.mag"
    /\ last.pre.s.x # last.pre.e.x /\ last.pre.s.y # last.pre.e.y /\ last.pre.s.z # last.pre.e.z
    /\ ret = RetNum(R(3))

====
